---- MODULE Spec2Model ----
(***************************************************************************)
(* hallo: Allocation / ProjectBuilder / Project.                           *)
(*                                                                         *)
(* A Date<Utc> is modelled as its day number (an integer).  A chrono       *)
(* Duration is modelled as a signed number of hours, so that durations     *)
(* that are not a whole number of days exist in the model.  `Date +        *)
(* Duration` adds the whole-day part of the duration (chrono adds          *)
(* Duration::num_days(), which truncates toward zero); `Date - Date` is a  *)
(* whole number of days.  Dates stay inside chrono's representable range.  *)
(***************************************************************************)
EXTENDS Integers, Sequences, FiniteSets, TLC

(* ------------------------------ bounds --------------------------------- *)
MaxToday == 1
MaxCalls == 2
MaxDateArg == 1
MaxHalfDays == 3
MaxWeeks == 1

(* ------------------------- chrono arithmetic --------------------------- *)
HoursPerDay == 24
DaysPerWeek == 7

Duration_days(n) == n * HoursPerDay

Duration_weeks(n) == Duration_days(n * DaysPerWeek)

Duration_num_days(dur) ==
    IF dur >= 0 THEN dur \div HoursPerDay ELSE -((-dur) \div HoursPerDay)

DateAdd(date, dur) == date + Duration_num_days(dur)

DateSub(a, b) == Duration_days(a - b)

(* ------------------------------ inputs --------------------------------- *)
HalfDay == HoursPerDay \div 2
DateArgs == 0..MaxDateArg
DurationArgs == {k * HalfDay : k \in (-MaxHalfDays)..MaxHalfDays}
WeekArgs == (-MaxWeeks)..MaxWeeks
NameArgs == {"p1", "p2"}
ValueArgs == {0, 5000}

(* ----------------------------- Allocation ------------------------------ *)
Allocation_duration(a) == DateSub(a.end_date, a.start_date)

Allocation_is_active_on_from_start(a, search_date) ==
    LET search_too_early == search_date < a.start_date
        search_too_late == search_date > a.end_date
    IN  IF search_too_early THEN FALSE
        ELSE IF search_too_late THEN FALSE
        ELSE TRUE

Allocation_is_active_on(a, search_date) ==
    LET search_too_early == search_date <= a.start_date
        search_too_late == search_date > a.end_date
    IN  IF search_too_early THEN FALSE
        ELSE IF search_too_late THEN FALSE
        ELSE TRUE

DefaultStartWeeks == 3
DefaultDurationWeeks == 4

Allocation_default_skewed(utc_today) ==
    LET start == DateAdd(utc_today, Duration_weeks(DefaultStartWeeks))
        end == DateAdd(utc_today, Duration_weeks(DefaultDurationWeeks))
    IN  [start_date |-> start, end_date |-> end]

Allocation_default(utc_today) ==
    LET start == DateAdd(utc_today, Duration_weeks(DefaultStartWeeks))
        end == DateAdd(start, Duration_weeks(DefaultDurationWeeks))
    IN  [start_date |-> start, end_date |-> end]

Allocation_set_start_date_validated(a, date) ==
    IF date > a.end_date
    THEN [self |-> a, result |-> "InvalidDatesError", value |-> 0]
    ELSE [self |-> [a EXCEPT !.start_date = date], result |-> "Ok", value |-> date]

Allocation_set_start_date(a, date) ==
    [self |-> [a EXCEPT !.start_date = date], result |-> "Ok", value |-> date]

Allocation_set_end_date(a, date) ==
    [self |-> [a EXCEPT !.end_date = date], result |-> "Ok", value |-> date]

(* --------------------------- ProjectBuilder ---------------------------- *)
DefaultName == "New Project"
DefaultValue == 20000

ProjectBuilder_default(utc_today) ==
    [allocation |-> Allocation_default(utc_today),
     name |-> DefaultName,
     value |-> DefaultValue]

ProjectBuilder_start_date_default_length(self, date) ==
    [self EXCEPT !.allocation =
        [start_date |-> date,
         end_date |-> DateAdd(date, Duration_weeks(DefaultDurationWeeks))]]

ProjectBuilder_start_date_keep_end(self, date) ==
    [self EXCEPT !.allocation =
        [start_date |-> date, end_date |-> self.allocation.end_date]]

ProjectBuilder_start_date(self, date) ==
    LET duration == Allocation_duration(self.allocation)
    IN  [self EXCEPT !.allocation =
            [start_date |-> date, end_date |-> DateAdd(date, duration)]]

ProjectBuilder_value_ignored(self, value) == self

ProjectBuilder_value(self, value) == [self EXCEPT !.value = value]

ProjectBuilder_name(self, name) == [self EXCEPT !.name = name]

ProjectBuilder_duration_from_end(self, duration) ==
    LET start_date == self.allocation.start_date
    IN  [self EXCEPT !.allocation =
            [start_date |-> start_date,
             end_date |-> DateAdd(self.allocation.end_date, duration)]]

ProjectBuilder_duration(self, duration) ==
    LET start_date == self.allocation.start_date
    IN  [self EXCEPT !.allocation =
            [start_date |-> start_date,
             end_date |-> DateAdd(start_date, duration)]]

ProjectBuilder_duration_weeks(self, num_of_weeks) ==
    ProjectBuilder_duration(self, Duration_weeks(num_of_weeks))

ProjectBuilder_build(self) ==
    [allocation |-> self.allocation,
     approx_value |-> self.value,
     name |-> self.name]

(* ------------------------------- Project ------------------------------- *)
Project_default(utc_today) ==
    [allocation |-> Allocation_default(utc_today),
     approx_value |-> DefaultValue,
     name |-> DefaultName]

Project_duration(self) == Allocation_duration(self.allocation)

Project_value(self) == self.approx_value

Project_allocation(self) == self.allocation

Project_get_contribution_on_always(self, date) == self.approx_value

Project_get_contribution_on(self, date) ==
    IF Allocation_is_active_on(self.allocation, date)
    THEN self.approx_value
    ELSE 0

(* ------------------------------- state --------------------------------- *)
VARIABLES
    today,      \* the clock: the day Utc::today() returns
    bornOn,     \* the value Utc::today() returned inside Allocation::default()
    phase,      \* "start", "building" (a builder is live), "built"
    builder,    \* <<>> or <<b>>: the ProjectBuilder value being moved along
    prev,       \* <<>> or <<b>>: the builder value before the last setter
    hist,       \* the setter calls made on the builder so far
    setArgs,    \* the argument of the last call of each setter
    origin,     \* which constructor made the project
    project,    \* <<>> or <<p>>: the built Project
    alloc,      \* <<>> or <<a>>: an Allocation value returned by allocation()
    last        \* the last call on the project or the allocation, with result

vars == <<today, bornOn, phase, builder, prev, hist, setArgs, origin,
          project, alloc, last>>

NoArgs ==
    [name_set |-> FALSE, name |-> "", value_set |-> FALSE, value |-> 0,
     start_set |-> FALSE, start |-> 0, dur_set |-> FALSE, dur |-> 0]

NoCall == [op |-> "none", arg |-> 0, result |-> "none", num |-> 0, flag |-> FALSE]

Call(op, str, num) == [op |-> op, str |-> str, num |-> num]

Init ==
    /\ today \in 0..MaxToday
    /\ bornOn = 0
    /\ phase = "start"
    /\ builder = <<>>
    /\ prev = <<>>
    /\ hist = <<>>
    /\ setArgs = NoArgs
    /\ origin = "none"
    /\ project = <<>>
    /\ alloc = <<>>
    /\ last = NoCall

(* the clock moves on to the next day *)
Tick ==
    /\ today < MaxToday
    /\ today' = today + 1
    /\ UNCHANGED <<bornOn, phase, builder, prev, hist, setArgs, origin,
                   project, alloc, last>>

(* ProjectBuilder::default() *)
NewBuilder ==
    /\ phase = "start"
    /\ phase' = "building"
    /\ bornOn' = today
    /\ builder' = <<ProjectBuilder_default(today)>>
    /\ UNCHANGED <<today, prev, hist, setArgs, origin, project, alloc, last>>

(* a fluent setter consumes the builder and returns the new one *)
Setter(new, call, args) ==
    /\ phase = "building"
    /\ Len(hist) < MaxCalls
    /\ builder' = <<new>>
    /\ prev' = builder
    /\ hist' = Append(hist, call)
    /\ setArgs' = args
    /\ UNCHANGED <<today, bornOn, phase, origin, project, alloc, last>>

CallStartDate ==
    \E date \in DateArgs :
        /\ builder # <<>>
        /\ Setter(ProjectBuilder_start_date(builder[1], date),
                  Call("start_date", "", date),
                  [setArgs EXCEPT !.start_set = TRUE, !.start = date])

CallValue ==
    \E value \in ValueArgs :
        /\ builder # <<>>
        /\ Setter(ProjectBuilder_value(builder[1], value),
                  Call("value", "", value),
                  [setArgs EXCEPT !.value_set = TRUE, !.value = value])

CallName ==
    \E name \in NameArgs :
        /\ builder # <<>>
        /\ Setter(ProjectBuilder_name(builder[1], name),
                  Call("name", name, 0),
                  [setArgs EXCEPT !.name_set = TRUE, !.name = name])

CallDurationWeeks ==
    \E num_of_weeks \in WeekArgs :
        /\ builder # <<>>
        /\ Setter(ProjectBuilder_duration_weeks(builder[1], num_of_weeks),
                  Call("duration_weeks", "", num_of_weeks),
                  [setArgs EXCEPT !.dur_set = TRUE,
                                  !.dur = Duration_weeks(num_of_weeks)])

CallDuration ==
    \E duration \in DurationArgs :
        /\ builder # <<>>
        /\ Setter(ProjectBuilder_duration(builder[1], duration),
                  Call("duration", "", duration),
                  [setArgs EXCEPT !.dur_set = TRUE, !.dur = duration])

(* build(self) -> Project: a build that rejects an empty or negative range *)
CallBuildChecked ==
    /\ phase = "building"
    /\ builder # <<>>
    /\ Allocation_duration(builder[1].allocation) > 0
    /\ phase' = "built"
    /\ project' = <<ProjectBuilder_build(builder[1])>>
    /\ builder' = <<>>
    /\ prev' = <<>>
    /\ hist' = <<>>
    /\ origin' = "ProjectBuilder::build"
    /\ UNCHANGED <<today, bornOn, setArgs, alloc, last>>

(* build(self) -> Project: terminal, the builder is moved into the project *)
CallBuild ==
    /\ phase = "building"
    /\ builder # <<>>
    /\ phase' = "built"
    /\ project' = <<ProjectBuilder_build(builder[1])>>
    /\ builder' = <<>>
    /\ prev' = <<>>
    /\ hist' = <<>>
    /\ origin' = "ProjectBuilder::build"
    /\ UNCHANGED <<today, bornOn, setArgs, alloc, last>>

(* Project::default() *)
NewProject ==
    /\ phase = "start"
    /\ phase' = "built"
    /\ bornOn' = today
    /\ project' = <<Project_default(today)>>
    /\ origin' = "Project::default"
    /\ UNCHANGED <<today, builder, prev, hist, setArgs, alloc, last>>

(* the dates a caller asks about: around the range's ends, and the inputs *)
QueryDates(a) ==
    {a.start_date - 1, a.start_date, a.start_date + 1,
     a.end_date, a.end_date + 1} \cup DateArgs

Query(call) ==
    /\ phase = "built"
    /\ last' = call
    /\ UNCHANGED <<today, bornOn, phase, builder, prev, hist, setArgs, origin,
                   project, alloc>>

GetDuration ==
    /\ project # <<>>
    /\ Query([NoCall EXCEPT !.op = "Project::duration",
                            !.num = Project_duration(project[1])])

GetValue ==
    /\ project # <<>>
    /\ Query([NoCall EXCEPT !.op = "Project::value",
                            !.num = Project_value(project[1])])

GetContributionOn ==
    /\ project # <<>>
    /\ \E date \in QueryDates(project[1].allocation) :
          Query([NoCall EXCEPT !.op = "Project::get_contribution_on",
                               !.arg = date,
                               !.num = Project_get_contribution_on(project[1], date)])

(* allocation(&self) -> Allocation: the caller receives a copy *)
GetAllocation ==
    /\ phase = "built"
    /\ project # <<>>
    /\ alloc' = <<Project_allocation(project[1])>>
    /\ last' = [NoCall EXCEPT !.op = "Project::allocation"]
    /\ UNCHANGED <<today, bornOn, phase, builder, prev, hist, setArgs, origin,
                   project>>

(* a set_start_date that writes through to the project's own allocation *)
AllocSetStartDateAliased ==
    /\ phase = "built"
    /\ alloc # <<>>
    /\ \E date \in DateArgs :
          LET r == Allocation_set_start_date(alloc[1], date)
          IN  /\ alloc' = <<r.self>>
              /\ project' = <<[project[1] EXCEPT !.allocation = r.self]>>
              /\ last' = [NoCall EXCEPT !.op = "Allocation::set_start_date",
                                        !.arg = date,
                                        !.result = r.result,
                                        !.num = r.value]
    /\ UNCHANGED <<today, bornOn, phase, builder, prev, hist, setArgs, origin>>

AllocSetStartDate ==
    /\ phase = "built"
    /\ alloc # <<>>
    /\ \E date \in DateArgs :
          LET r == Allocation_set_start_date(alloc[1], date)
          IN  /\ alloc' = <<r.self>>
              /\ last' = [NoCall EXCEPT !.op = "Allocation::set_start_date",
                                        !.arg = date,
                                        !.result = r.result,
                                        !.num = r.value]
    /\ UNCHANGED <<today, bornOn, phase, builder, prev, hist, setArgs, origin,
                   project>>

AllocSetEndDate ==
    /\ phase = "built"
    /\ alloc # <<>>
    /\ \E date \in DateArgs :
          LET r == Allocation_set_end_date(alloc[1], date)
          IN  /\ alloc' = <<r.self>>
              /\ last' = [NoCall EXCEPT !.op = "Allocation::set_end_date",
                                        !.arg = date,
                                        !.result = r.result,
                                        !.num = r.value]
    /\ UNCHANGED <<today, bornOn, phase, builder, prev, hist, setArgs, origin,
                   project>>

AllocIsActiveOn ==
    /\ alloc # <<>>
    /\ \E date \in QueryDates(alloc[1]) :
          Query([NoCall EXCEPT !.op = "Allocation::is_active_on",
                               !.arg = date,
                               !.flag = Allocation_is_active_on(alloc[1], date)])

AllocDuration ==
    /\ alloc # <<>>
    /\ Query([NoCall EXCEPT !.op = "Allocation::duration",
                            !.num = Allocation_duration(alloc[1])])

Next ==
    \/ Tick
    \/ NewBuilder
    \/ CallStartDate
    \/ CallValue
    \/ CallName
    \/ CallDurationWeeks
    \/ CallDuration
    \/ CallBuild
    \/ NewProject
    \/ GetDuration
    \/ GetValue
    \/ GetContributionOn
    \/ GetAllocation
    \/ AllocSetStartDate
    \/ AllocSetEndDate
    \/ AllocIsActiveOn
    \/ AllocDuration

Spec == Init /\ [][Next]_vars

(* ---------------------------- properties ------------------------------- *)
(* the step is a call of the named setter on the live builder *)
IsCall(op) ==
    /\ phase = "building"
    /\ Len(hist') = Len(hist) + 1
    /\ hist'[Len(hist')].op = op

NewArg == hist'[Len(hist')].num

Days(a) == a.end_date - a.start_date

(* whole is the duration dur cut down, toward zero, to whole days *)
WholeDayPart(dur, whole) ==
    /\ whole % 24 = 0
    /\ dur >= 0 => (whole <= dur /\ dur < whole + 24)
    /\ dur < 0 => (dur <= whole /\ whole - 24 < dur)

(* C1: is_active_on(d) is true exactly when start_date < d <= end_date. *)
C1_ActiveIffInWindow ==
    last.op = "Allocation::is_active_on" =>
        (last.flag <=> (alloc[1].start_date < last.arg /\ last.arg <= alloc[1].end_date))

C1_Witness ==
    /\ last.op = "Allocation::is_active_on"
    /\ alloc[1].start_date < alloc[1].end_date
    /\ last.arg = alloc[1].end_date
    /\ last.flag

C1_WitnessStart ==
    /\ last.op = "Allocation::is_active_on"
    /\ alloc[1].start_date < alloc[1].end_date
    /\ last.arg = alloc[1].start_date
    /\ ~last.flag

(* C2: get_contribution_on(d) is approx_value when the project's allocation *)
(* is active on d (start_date < d <= end_date) and 0 otherwise.            *)
C2_ContributionIsValueOrZero ==
    last.op = "Project::get_contribution_on" =>
        LET p == project[1]
            active == p.allocation.start_date < last.arg
                      /\ last.arg <= p.allocation.end_date
        IN  /\ active => last.num = p.approx_value
            /\ ~active => last.num = 0
            /\ last.num \in {0, p.approx_value}

C2_Witness ==
    /\ last.op = "Project::get_contribution_on"
    /\ project[1].approx_value > 0
    /\ last.arg = project[1].allocation.end_date + 1
    /\ last.num = 0

(* C3: start_date(d) keeps the duration: afterwards start_date = d and     *)
(* end_date = d + (old end_date - old start_date); name, value unchanged.  *)
C3_StartDateKeepsDuration ==
    [][IsCall("start_date") =>
        LET b == builder[1]
            nb == builder'[1]
        IN  /\ nb.allocation.start_date = NewArg
            /\ nb.allocation.end_date = NewArg + Days(b.allocation)
            /\ Allocation_duration(nb.allocation) = Allocation_duration(b.allocation)
            /\ nb.name = b.name
            /\ nb.value = b.value]_vars

C3_Witness ==
    /\ phase = "building"
    /\ Len(hist) = 2
    /\ hist[1].op = "duration"
    /\ hist[2].op = "start_date"
    /\ builder[1].allocation.start_date = hist[2].num
    /\ Days(builder[1].allocation) = -1

(* C4 as stated: duration(D) keeps start_date, sets end_date = start + D,  *)
(* and the built project's duration() is D exactly.                        *)
C4_DurationReadsBackExactly ==
    [][IsCall("duration") =>
        LET b == builder[1]
            nb == builder'[1]
        IN  /\ nb.allocation.start_date = b.allocation.start_date
            /\ Project_duration(ProjectBuilder_build(nb)) = NewArg]_vars

(* C4 amended: duration(D) keeps start_date, name and value, and the built *)
(* project's duration() is D cut down toward zero to whole days (so D      *)
(* itself when D is a whole number of days, zero or negative included);    *)
(* duration_weeks(n) sets end_date = start_date + 7n days.                 *)
C4_DurationSetsWholeDays ==
    [][/\ IsCall("duration") =>
            LET b == builder[1]
                nb == builder'[1]
                read == Project_duration(ProjectBuilder_build(nb))
            IN  /\ nb.allocation.start_date = b.allocation.start_date
                /\ WholeDayPart(NewArg, read)
                /\ 24 * Days(nb.allocation) = read
                /\ NewArg % 24 = 0 => read = NewArg
                /\ nb.name = b.name
                /\ nb.value = b.value
       /\ IsCall("duration_weeks") =>
            LET b == builder[1]
                nb == builder'[1]
            IN  /\ nb.allocation.start_date = b.allocation.start_date
                /\ Days(nb.allocation) = 7 * NewArg
                /\ Project_duration(ProjectBuilder_build(nb)) = 24 * 7 * NewArg
                /\ nb.name = b.name
                /\ nb.value = b.value]_vars

C4_Witness ==
    /\ phase = "building"
    /\ Len(hist) = 2
    /\ hist[1].op = "start_date"
    /\ hist[2].op = "duration"
    /\ hist[2].num = -36
    /\ builder[1].allocation.start_date = hist[1].num
    /\ Days(builder[1].allocation) = -1

(* C5: whatever today is, the default builder built at once, and           *)
(* Project::default(), give a project of 28 days starting at today + 21    *)
(* days, named "New Project", of value 20000.                              *)
C5_DefaultProject ==
    /\ (phase = "building" /\ hist = <<>>) =>
            /\ Days(builder[1].allocation) = 28
            /\ builder[1].allocation.start_date = bornOn + 21
    /\ (phase = "built" /\ setArgs = NoArgs) =>
            /\ Project_duration(project[1]) = 28 * 24
            /\ project[1].allocation.start_date = bornOn + 21
            /\ project[1].allocation.end_date = bornOn + 49
            /\ project[1].name = "New Project"
            /\ Project_value(project[1]) = 20000

C5_Witness ==
    /\ phase = "built"
    /\ setArgs = NoArgs
    /\ origin = "ProjectBuilder::build"
    /\ bornOn = MaxToday
    /\ Days(project[1].allocation) = 28

C5_WitnessProjectDefault ==
    /\ phase = "built"
    /\ origin = "Project::default"
    /\ bornOn = MaxToday

(* what the built project must read back for the name, value and start *)
ReadsBackNameValueStart ==
    LET p == project[1]
    IN  /\ p.name = (IF setArgs.name_set THEN setArgs.name ELSE "New Project")
        /\ Project_value(p) = (IF setArgs.value_set THEN setArgs.value ELSE 20000)
        /\ Project_allocation(p).start_date =
              (IF setArgs.start_set THEN setArgs.start ELSE bornOn + 21)

(* C6 as stated: the built project reads back the last argument of every   *)
(* setter, the duration included, and defaults for what was never set.     *)
C6_ReadsBackExactly ==
    (phase = "built" /\ origin = "ProjectBuilder::build") =>
        /\ ReadsBackNameValueStart
        /\ Project_duration(project[1]) =
              (IF setArgs.dur_set THEN setArgs.dur ELSE 28 * 24)

(* C6 amended: name, value and start_date read back exactly; duration()    *)
(* reads back the last duration argument cut down toward zero to whole     *)
(* days; a field never set keeps its default.                              *)
C6_ReadsBackWholeDays ==
    (phase = "built" /\ origin = "ProjectBuilder::build") =>
        /\ ReadsBackNameValueStart
        /\ IF setArgs.dur_set
           THEN WholeDayPart(setArgs.dur, Project_duration(project[1]))
           ELSE Project_duration(project[1]) = 28 * 24

C6_Witness ==
    /\ phase = "built"
    /\ origin = "ProjectBuilder::build"
    /\ setArgs.value_set
    /\ setArgs.dur_set
    /\ setArgs.dur = 36
    /\ Project_value(project[1]) = 5000
    /\ Project_duration(project[1]) = 24

C6_WitnessOverride ==
    /\ phase = "building"
    /\ Len(hist) = 2
    /\ hist[1].op = "name"
    /\ hist[2].op = "name"
    /\ hist[1].str # hist[2].str
    /\ builder[1].name = hist[2].str

(* C7: set_start_date(d) / set_end_date(d) return Ok(d), overwrite their   *)
(* own date, leave the other one alone, also when start ends up after end. *)
C7_SettersAlwaysOk ==
    [][/\ last'.result # "InvalidDatesError"
       /\ (alloc' # alloc \/ last' # last) =>
            /\ last'.op = "Allocation::set_start_date" =>
                  /\ last'.result = "Ok"
                  /\ last'.num = last'.arg
                  /\ alloc'[1].start_date = last'.arg
                  /\ alloc'[1].end_date = alloc[1].end_date
            /\ last'.op = "Allocation::set_end_date" =>
                  /\ last'.result = "Ok"
                  /\ last'.num = last'.arg
                  /\ alloc'[1].end_date = last'.arg
                  /\ alloc'[1].start_date = alloc[1].start_date]_vars

C7_Witness ==
    /\ last.op = "Allocation::set_start_date"
    /\ last.result = "Ok"
    /\ alloc # <<>>
    /\ alloc[1].start_date = last.arg
    /\ alloc[1].start_date > alloc[1].end_date

(* C8: while a builder is live every setter can be called and build() can  *)
(* be called and yields a project, also one of zero or negative duration   *)
(* or of value 0.                                                          *)
C8_BuildAlwaysSucceeds ==
    /\ phase = "building" => ENABLED CallBuild
    /\ (phase = "building" /\ Len(hist) < MaxCalls) =>
            /\ ENABLED CallStartDate
            /\ ENABLED CallValue
            /\ ENABLED CallName
            /\ ENABLED CallDuration
            /\ ENABLED CallDurationWeeks
    /\ (phase = "built" /\ origin = "ProjectBuilder::build") =>
            /\ Len(project) = 1
            /\ builder = <<>>

C8_Witness ==
    /\ phase = "built"
    /\ origin = "ProjectBuilder::build"
    /\ Project_duration(project[1]) = 0
    /\ Project_value(project[1]) = 0

C8_WitnessNegative ==
    /\ phase = "built"
    /\ origin = "ProjectBuilder::build"
    /\ Project_duration(project[1]) < 0

C10_StartDateDurationCommute ==
    [][(Len(hist) >= 1 /\ prev # <<>>) =>
        /\ (IsCall("duration") /\ hist[Len(hist)].op = "start_date") =>
              LET d == hist[Len(hist)].num
                  swapped == ProjectBuilder_start_date(
                                 ProjectBuilder_duration(prev[1], NewArg), d)
              IN  /\ builder'[1] = swapped
                  /\ builder'[1].allocation.start_date = d
                  /\ WholeDayPart(NewArg, 24 * (builder'[1].allocation.end_date - d))
        /\ (IsCall("start_date") /\ hist[Len(hist)].op = "duration") =>
              LET D == hist[Len(hist)].num
                  swapped == ProjectBuilder_duration(
                                 ProjectBuilder_start_date(prev[1], NewArg), D)
              IN  /\ builder'[1] = swapped
                  /\ builder'[1].allocation.start_date = NewArg
                  /\ WholeDayPart(D, 24 * (builder'[1].allocation.end_date - NewArg))]_vars

C10_Witness ==
    /\ phase = "building"
    /\ Len(hist) = 2
    /\ hist[1].op = "duration"
    /\ hist[1].num = 36
    /\ hist[2].op = "start_date"
    /\ hist[2].num = MaxDateArg
    /\ builder[1].allocation.end_date = MaxDateArg + 1

====
